---- MODULE Spec2Model ----
(***************************************************************************)
(* DynaAgent of src/code/agent.py: a tabular Dyna-style learner.  The      *)
(* state is the agent's tables (Q, experience_buffer, action_count,        *)
(* history, action_taken), its position s, the parameters and loop         *)
(* position of the running simulate() call, and the value the last call    *)
(* returned.  Real numbers are fixed-point numbers with FracBits           *)
(* fractional bits; every product rounds, as float64 products do.          *)
(***************************************************************************)
EXTENDS Integers, Sequences, FiniteSets, TLC

VARIABLES
    \* the environment's attributes and the agent's three scalars
    env, alpha, gamma, epsilon,
    \* the names of the attributes a reset has created on the agent
    attrs,
    \* the agent's tables and its position
    Q, experience_buffer, action_count, history, action_taken, s,
    \* the running simulate call: where it stands ("idle": no call runs,
    \* "policy": head of the loop, "plan": in _plan, "move": before line 246),
    \* its parameters, its loop counters and its locals
    pc, num_trials, reset_agent, num_planning_updates, trial, plan_i,
    a, r, s1, mod,
    \* what the call that ended last returned or raised
    ret,
    \* observers: the log's length when the loop was entered, and per real
    \* step since the last reset the transition taken and the rows planning drew
    entry_len, trace

vars == <<env, alpha, gamma, epsilon, attrs,
          Q, experience_buffer, action_count, history, action_taken, s,
          pc, num_trials, reset_agent, num_planning_updates, trial, plan_i,
          a, r, s1, mod, ret, entry_len, trace>>

(***************************************************************************)
(* Bounds of the model.                                                    *)
(***************************************************************************)
\* real steps since the last reset
MaxSteps == 3
\* planning updates since the last reset
MaxDraws == 2
\* fractional bits of a modelled real number
FracBits == 10
\* the planning budget of the planning-budget scenario
ScenarioBudget == 5
\* real steps of the planning-budget scenario
ScenarioSteps == 1
\* the count of a pair that was not just taken, in a directly called method
CallCount == 3

(***************************************************************************)
(* Numbers.                                                                *)
(***************************************************************************)
Scale == 2 ^ FracBits
One == Scale
Half == Scale \div 2

\* x * y of two reals
Mul(x, y) == (x * y) \div Scale

\* an integer read as a real (numpy's promotion of an int operand)
FromInt(i) == i * Scale

\* a real stored into an integer array: the fraction is cut off, towards zero
ToInt(x) == IF x >= 0 THEN x \div Scale ELSE -((-x) \div Scale)

RECURSIVE Bisect(_, _, _)
Bisect(n, lo, hi) ==
    IF hi - lo <= 1 THEN lo
    ELSE LET mid == (lo + hi) \div 2
         IN  IF mid * mid <= n THEN Bisect(n, mid, hi) ELSE Bisect(n, lo, mid)

\* np.sqrt of a non-negative integer count, as a real
Sqrt(c) == Bisect(c * Scale * Scale, 0, c * Scale + 1)

\* the name None of the planning budget's default
None == -1

\* a Python list or numpy row: indices from 0
Tab(seq) == [i \in 0..(Len(seq) - 1) |-> seq[i + 1]]

(***************************************************************************)
(* Environments: the attributes Environment.__init__ sets on the agent.    *)
(* T[s][a][s1] is the probability of s1 in per cent, R[s][a] a real.       *)
(***************************************************************************)
\* two states, one action: action 0 of state 0 always reaches the goal
EnvChain ==
    [num_states |-> 2, num_actions |-> 1, start_state |-> 0, goal_state |-> 1,
     T |-> Tab(<< Tab(<< Tab(<<0, 100>>) >>),
                  Tab(<< Tab(<<0, 100>>) >>) >>),
     R |-> Tab(<< Tab(<<One>>), Tab(<<0>>) >>)]

\* three states, one action, a fractional and a negative reward
EnvLine ==
    [num_states |-> 3, num_actions |-> 1, start_state |-> 0, goal_state |-> 2,
     T |-> Tab(<< Tab(<< Tab(<<50, 50, 0>>) >>),
                  Tab(<< Tab(<<50, 0, 50>>) >>),
                  Tab(<< Tab(<<0, 0, 100>>) >>) >>),
     R |-> Tab(<< Tab(<<-Half>>), Tab(<<One + Half>>), Tab(<<0>>) >>)]

\* two states, two actions, deterministic, the start state is the goal state
EnvRing ==
    [num_states |-> 2, num_actions |-> 2, start_state |-> 0, goal_state |-> 0,
     T |-> Tab(<< Tab(<< Tab(<<0, 100>>), Tab(<<100, 0>>) >>),
                  Tab(<< Tab(<<100, 0>>), Tab(<<0, 100>>) >>) >>),
     R |-> Tab(<< Tab(<<-(One + Half), One>>),
                  Tab(<<Half, 0>>) >>)]

\* one state, three actions, every action stays
EnvTri ==
    [num_states |-> 1, num_actions |-> 3, start_state |-> 0, goal_state |-> 0,
     T |-> Tab(<< Tab(<< Tab(<<100>>), Tab(<<100>>), Tab(<<100>>) >>) >>),
     R |-> Tab(<< Tab(<<-One, -One, -Half>>) >>)]

\* the agent's configuration: alpha in (0, 1], gamma in (0, 1), epsilon
Config(al, ga, ep) == [alpha |-> al, gamma |-> ga, epsilon |-> ep]

\* the environments and configurations the agent is built with
Setups ==
    {<<EnvChain, Config(Half, Half, One)>>,
     <<EnvChain, Config(One, Half, One)>>,
     <<EnvLine, Config(Half, Half, One)>>,
     <<EnvRing, Config(Half, Half, 0)>>}

States == 0..(env.num_states - 1)
Actions == 0..(env.num_actions - 1)
Rows == 0..(env.num_states * env.num_actions - 1)

(***************************************************************************)
(* The agent's methods, as functions of the tables they read.              *)
(***************************************************************************)
\* the attributes a reset creates on the agent
TableAttrs == {"Q", "experience_buffer", "action_count", "history", "action_taken", "s"}

\* _init_q_values, but an existing table is kept
InitQValuesKeepsOld ==
    IF "Q" \in attrs THEN Q ELSE [st \in States |-> [ac \in Actions |-> 0]]

_init_q_values == [st \in States |-> [ac \in Actions |-> 0]]

_init_experience_buffer ==
    [m \in Rows |-> LET st == m \div env.num_actions
                        ac == m % env.num_actions
                    IN  <<st, ac, 0, st>>]

_init_history == << >>

\* _init_action_count, but an existing counter is kept
InitActionCountKeepsOld ==
    IF "action_count" \in attrs THEN action_count
    ELSE [st \in States |-> [ac \in Actions |-> 0]]

_init_action_count == [st \in States |-> [ac \in Actions |-> 0]]

_init_action_taken == [st \in States |-> [ac \in Actions |-> 0]]

\* _update_experience_buffer, but the row index is a * num_states + s
UpdateExperienceBufferTransposed(buf, st, ac, rw, nx) ==
    [buf EXCEPT ![ac * env.num_states + st] = <<st, ac, ToInt(rw), nx>>]

\* _update_experience_buffer, but the entry is filed under the next state
UpdateExperienceBufferAtNext(buf, st, ac, rw, nx) ==
    [buf EXCEPT ![nx * env.num_actions + ac] = <<st, ac, ToInt(rw), nx>>]

_update_experience_buffer(buf, st, ac, rw, nx) ==
    [buf EXCEPT ![st * env.num_actions + ac] = <<st, ac, ToInt(rw), nx>>]

\* np.max of a row
RECURSIVE MaxFrom(_, _)
MaxFrom(row, i) ==
    IF i = 0 THEN row[0]
    ELSE LET m == MaxFrom(row, i - 1) IN IF row[i] > m THEN row[i] ELSE m

Max(row) == MaxFrom(row, Cardinality(DOMAIN row) - 1)

\* ArgMax, but the last index of the maximum
ArgMaxLast(row) ==
    CHOOSE i \in DOMAIN row :
        /\ row[i] = Max(row)
        /\ \A j \in DOMAIN row : j > i => row[j] # Max(row)

\* np.argmax of a row: the first index of the maximum
ArgMax(row) ==
    CHOOSE i \in DOMAIN row :
        /\ row[i] = Max(row)
        /\ \A j \in DOMAIN row : j < i => row[j] # Max(row)

\* the baseline update of line 111
Baseline(q, st, ac, rw, nx) ==
    [q EXCEPT ![st][ac] = q[st][ac] + Mul(alpha, rw + Mul(gamma, Max(q[nx])) - q[st][ac])]

\* Bonus, but without the count's term
BonusWithoutCount(q, cnt, st, ac, rw, nx) ==
    [q EXCEPT ![st][ac] =
        q[st][ac] + Mul(alpha, rw + Mul(gamma, Max(q[nx])) - q[st][ac])]

\* Bonus, but nothing is added when the count's term is zero
BonusSkippedWhenZero(q, cnt, st, ac, rw, nx) ==
    IF Mul(epsilon, Sqrt(cnt[st][ac])) = 0 THEN q
    ELSE [q EXCEPT ![st][ac] =
             q[st][ac] + Mul(alpha, rw + Mul(epsilon, Sqrt(cnt[st][ac]))
                                       + Mul(gamma, Max(q[nx])) - q[st][ac])]

\* the second update of line 114, on the table the first one left
Bonus(q, cnt, st, ac, rw, nx) ==
    [q EXCEPT ![st][ac] =
        q[st][ac] + Mul(alpha, rw + Mul(epsilon, Sqrt(cnt[st][ac]))
                                  + Mul(gamma, Max(q[nx])) - q[st][ac])]

\* _update_qvals, but the flagged update replaces the baseline update
UpdateQvalsBonusInstead(q, cnt, st, ac, rw, nx, bonus) ==
    IF bonus THEN Bonus(q, cnt, st, ac, rw, nx) ELSE Baseline(q, st, ac, rw, nx)

_update_qvals(q, cnt, st, ac, rw, nx, bonus) ==
    LET q1 == Baseline(q, st, ac, rw, nx)
    IN  IF bonus THEN Bonus(q1, cnt, st, ac, rw, nx) ELSE q1

\* _update_action_count, but the entry is zeroed before all are incremented
UpdateActionCountZeroFirst(cnt, st, ac) ==
    LET zeroed == [cnt EXCEPT ![st][ac] = 0]
    IN  [x \in DOMAIN cnt |-> [y \in DOMAIN cnt[x] |-> zeroed[x][y] + 1]]

_update_action_count(cnt, st, ac) ==
    LET plus == [x \in DOMAIN cnt |-> [y \in DOMAIN cnt[x] |-> cnt[x][y] + 1]]
    IN  [plus EXCEPT ![st][ac] = 0]

\* _update_history, but the row is cast to the log's integer type
UpdateHistoryAsInt(h, st, ac, rw, nx) == Append(h, <<st, ac, FromInt(ToInt(rw)), nx>>)

_update_history(h, st, ac, rw, nx) == Append(h, <<st, ac, rw, nx>>)

\* np.unique of a row: its distinct values
Unique(row) == {row[i] : i \in DOMAIN row}

\* u is what np.random.choice returns when the row is all equal
_policy(q, st, u) ==
    IF \A v \in Unique(q[st]) : v = q[st][0] THEN u ELSE ArgMax(q[st])

\* np.cumsum of the first n values of a column
RECURSIVE CumSumTo(_, _)
CumSumTo(col, n) ==
    IF n = 0 THEN << >>
    ELSE LET before == CumSumTo(col, n - 1)
         IN  Append(before, (IF n = 1 THEN 0 ELSE before[n - 1]) + col[n])

\* np_cumsum, but each value is the sum of the values before it
CumSumExclusive(col) == [i \in 1..Len(col) |-> IF i = 1 THEN 0 ELSE CumSumTo(col, i - 1)[i - 1]]

np_cumsum(col) == CumSumTo(col, Len(col))

(***************************************************************************)
(* The state after construction: __init__ and init_env have run, no table  *)
(* exists yet.  The values of the missing attributes are placeholders.     *)
(***************************************************************************)
Returned(of, kind, value) == [of |-> of, kind |-> kind, value |-> value]

NoTables ==
    /\ attrs = {}
    /\ Q = << >>
    /\ experience_buffer = << >>
    /\ action_count = << >>
    /\ history = << >>
    /\ action_taken = << >>
    /\ s = -1

\* no call is running: simulate's parameters and locals do not exist
NoFrame ==
    /\ num_trials = 0
    /\ reset_agent = FALSE
    /\ num_planning_updates = None
    /\ trial = 0
    /\ plan_i = 0
    /\ a = -1
    /\ r = 0
    /\ s1 = -1
    /\ mod = -1
    /\ entry_len = 0

\* a call ends: its parameters and locals are gone
PopFrame ==
    /\ num_trials' = 0
    /\ reset_agent' = FALSE
    /\ num_planning_updates' = None
    /\ trial' = 0
    /\ plan_i' = 0
    /\ a' = -1
    /\ r' = 0
    /\ s1' = -1
    /\ mod' = -1
    /\ entry_len' = 0

Init ==
    /\ \E su \in Setups :
         /\ env = su[1]
         /\ alpha = su[2].alpha
         /\ gamma = su[2].gamma
         /\ epsilon = su[2].epsilon
    /\ NoTables
    /\ NoFrame
    /\ pc = "idle"
    /\ ret = Returned("", "nothing", << >>)
    /\ trace = << >>

(***************************************************************************)
(* simulate, lines 217-224: the reset block.                               *)
(***************************************************************************)
\* ResetAgent, but the position is set outside the if
ResetAgentRepositions(reset) ==
    IF reset
    THEN /\ Q' = _init_q_values
         /\ experience_buffer' = _init_experience_buffer
         /\ action_count' = _init_action_count
         /\ history' = _init_history
         /\ action_taken' = _init_action_taken
         /\ s' = env.start_state
         /\ attrs' = attrs \cup TableAttrs
         /\ trace' = << >>
    ELSE /\ s' = IF "s" \in attrs THEN env.start_state ELSE s
         /\ UNCHANGED <<Q, experience_buffer, action_count, history, action_taken,
                        attrs, trace>>

ResetAgent(reset) ==
    IF reset
    THEN /\ Q' = _init_q_values
         /\ experience_buffer' = _init_experience_buffer
         /\ action_count' = _init_action_count
         /\ history' = _init_history
         /\ action_taken' = _init_action_taken
         /\ s' = env.start_state
         /\ attrs' = attrs \cup TableAttrs
         /\ trace' = << >>
    ELSE UNCHANGED <<Q, experience_buffer, action_count, history, action_taken,
                     s, attrs, trace>>

\* the call simulate(n, reset, budget), up to the head of its loop
simulate(n, reset, budget) ==
    /\ pc = "idle"
    /\ ResetAgent(reset)
    /\ num_trials' = n
    /\ reset_agent' = reset
    /\ num_planning_updates' = budget
    /\ trial' = 0
    /\ plan_i' = 0
    /\ entry_len' = Len(history')
    /\ pc' = "policy"
    /\ ret' = Returned("simulate", "running", << >>)
    /\ UNCHANGED <<env, alpha, gamma, epsilon, a, r, s1, mod>>

\* lines 229-241 of one trial: act, observe, learn, record, count, log
RealStep ==
    /\ pc = "policy"
    /\ trial < num_trials
    /\ IF ~({"s", "Q"} \subseteq attrs)
       THEN \* self.s does not exist: AttributeError leaves simulate
            /\ pc' = "idle"
            /\ ret' = Returned("simulate", "AttributeError", << >>)
            /\ PopFrame
            /\ UNCHANGED <<Q, experience_buffer, action_count, history, trace>>
       ELSE \E u \in Actions, nx \in States :
              LET ac == _policy(Q, s, u)
                  rw == env.R[s][ac]
              IN  /\ env.T[s][ac][nx] > 0
                  /\ a' = ac
                  /\ s1' = nx
                  /\ r' = rw
                  /\ Q' = _update_qvals(Q, action_count, s, ac, rw, nx, FALSE)
                  /\ experience_buffer' =
                         _update_experience_buffer(experience_buffer, s, ac, rw, nx)
                  /\ action_count' = _update_action_count(action_count, s, ac)
                  /\ history' = _update_history(history, s, ac, rw, nx)
                  /\ trace' = Append(trace, [s |-> s, a |-> ac, r |-> rw, s1 |-> nx,
                                             plan |-> << >>])
                  /\ plan_i' = 0
                  /\ pc' = IF num_planning_updates # None THEN "plan" ELSE "move"
                  /\ UNCHANGED <<ret, num_trials, reset_agent, num_planning_updates,
                                 trial, mod, entry_len>>
    /\ UNCHANGED <<env, alpha, gamma, epsilon, attrs, action_taken, s>>

\* _plan, but a planning update touches the counter of the pair it draws
PlanTouchesCount ==
    /\ pc = "plan"
    /\ plan_i < num_planning_updates
    /\ \E m \in Rows :
         LET e == experience_buffer[m]
         IN  /\ mod' = m
             /\ Q' = _update_qvals(Q, action_count, e[1], e[2], FromInt(e[3]), e[4], TRUE)
             /\ action_count' = _update_action_count(action_count, e[1], e[2])
             /\ trace' = [trace EXCEPT ![Len(trace)].plan = Append(@, m)]
    /\ plan_i' = plan_i + 1
    /\ UNCHANGED <<env, alpha, gamma, epsilon, attrs, experience_buffer,
                   history, action_taken, s, pc, num_trials, reset_agent,
                   num_planning_updates, trial, a, r, s1, ret, entry_len>>

\* one pass of _plan's loop, lines 182-185
_plan ==
    /\ pc = "plan"
    /\ plan_i < num_planning_updates
    /\ \E m \in Rows :
         LET e == experience_buffer[m]
         IN  /\ mod' = m
             /\ Q' = _update_qvals(Q, action_count, e[1], e[2], FromInt(e[3]), e[4], TRUE)
             /\ trace' = [trace EXCEPT ![Len(trace)].plan = Append(@, m)]
    /\ plan_i' = plan_i + 1
    /\ UNCHANGED <<env, alpha, gamma, epsilon, attrs, experience_buffer, action_count,
                   history, action_taken, s, pc, num_trials, reset_agent,
                   num_planning_updates, trial, a, r, s1, ret, entry_len>>

\* Transition, but reaching the goal state ends the run
TransitionStopsAtGoal ==
    /\ \/ pc = "move"
       \/ pc = "plan" /\ plan_i = num_planning_updates
    /\ s' = IF s1 = env.goal_state THEN env.start_state ELSE s1
    /\ IF trial + 1 < num_trials /\ s1 # env.goal_state
       THEN /\ pc' = "policy"
            /\ trial' = trial + 1
            /\ UNCHANGED <<ret, num_trials, reset_agent, num_planning_updates,
                           plan_i, a, r, s1, mod, entry_len>>
       ELSE /\ pc' = "idle"
            /\ ret' = Returned("simulate", "None", << >>)
            /\ PopFrame
    /\ UNCHANGED <<env, alpha, gamma, epsilon, attrs, Q, experience_buffer,
                   action_count, history, action_taken, trace>>

\* Transition, but the position is the next state, goal state or not
TransitionStaysAtGoal ==
    /\ \/ pc = "move"
       \/ pc = "plan" /\ plan_i = num_planning_updates
    /\ s' = s1
    /\ IF trial + 1 < num_trials
       THEN /\ pc' = "policy"
            /\ trial' = trial + 1
            /\ UNCHANGED <<ret, num_trials, reset_agent, num_planning_updates,
                           plan_i, a, r, s1, mod, entry_len>>
       ELSE /\ pc' = "idle"
            /\ ret' = Returned("simulate", "None", << >>)
            /\ PopFrame
    /\ UNCHANGED <<env, alpha, gamma, epsilon, attrs, Q, experience_buffer,
                   action_count, history, action_taken, trace>>

\* Transition, but every step ends at the start state
TransitionAlwaysToStart ==
    /\ \/ pc = "move"
       \/ pc = "plan" /\ plan_i = num_planning_updates
    /\ s' = env.start_state
    /\ IF trial + 1 < num_trials
       THEN /\ pc' = "policy"
            /\ trial' = trial + 1
            /\ UNCHANGED <<ret, num_trials, reset_agent, num_planning_updates,
                           plan_i, a, r, s1, mod, entry_len>>
       ELSE /\ pc' = "idle"
            /\ ret' = Returned("simulate", "None", << >>)
            /\ PopFrame
    /\ UNCHANGED <<env, alpha, gamma, epsilon, attrs, Q, experience_buffer,
                   action_count, history, action_taken, trace>>

\* lines 246-249, then the next trial or the return
Transition ==
    /\ \/ pc = "move"
       \/ pc = "plan" /\ plan_i = num_planning_updates
    /\ s' = IF s1 = env.goal_state THEN env.start_state ELSE s1
    /\ IF trial + 1 < num_trials
       THEN /\ pc' = "policy"
            /\ trial' = trial + 1
            /\ UNCHANGED <<ret, num_trials, reset_agent, num_planning_updates,
                           plan_i, a, r, s1, mod, entry_len>>
       ELSE \* return None: the call's parameters and locals are gone
            /\ pc' = "idle"
            /\ ret' = Returned("simulate", "None", << >>)
            /\ PopFrame
    /\ UNCHANGED <<env, alpha, gamma, epsilon, attrs, Q, experience_buffer,
                   action_count, history, action_taken, trace>>

\* get_performace, line 205
get_performace ==
    /\ pc = "idle"
    /\ ret' = IF "history" \in attrs
              THEN Returned("get_performace", "array",
                            np_cumsum([i \in 1..Len(history) |-> history[i][3]]))
              ELSE Returned("get_performace", "AttributeError", << >>)
    /\ UNCHANGED <<env, alpha, gamma, epsilon, attrs, Q, experience_buffer,
                   action_count, history, action_taken, s, pc, num_trials,
                   reset_agent, num_planning_updates, trial, plan_i, a, r, s1, mod,
                   entry_len, trace>>

(***************************************************************************)
(* The callers' choices, within the bounds.                                *)
(***************************************************************************)
Budget(budget) == IF budget = None THEN 0 ELSE budget

RECURSIVE Draws(_)
Draws(tr) == IF tr = << >> THEN 0 ELSE Len(tr[1].plan) + Draws(Tail(tr))

Fits(n, reset, budget, maxSteps, maxDraws) ==
    /\ (IF reset THEN 0 ELSE Len(trace)) + n <= maxSteps
    /\ (IF reset THEN 0 ELSE Draws(trace)) + n * Budget(budget) <= maxDraws

Next ==
    \/ \E n \in 1..MaxSteps, reset \in BOOLEAN, budget \in {None} \cup (0..MaxDraws) :
         Fits(n, reset, budget, MaxSteps, MaxDraws) /\ simulate(n, reset, budget)
    \/ RealStep
    \/ _plan
    \/ Transition
    \/ get_performace

Spec == Init /\ [][Next]_vars

(***************************************************************************)
(* The planning-budget scenario: EnvChain, where only the pair (0, 0) is   *)
(* ever taken, and every call plans ScenarioBudget updates per trial.      *)
(***************************************************************************)
ScenarioSetups ==
    {<<EnvChain, Config(Half, Half, One)>>,
     <<EnvChain, Config(One, Half, One)>>,
     <<EnvChain, Config(Half, Half, 0)>>,
     <<EnvChain, Config(One, Half, One)>>}

InitScenario ==
    /\ \E su \in ScenarioSetups :
         /\ env = su[1]
         /\ alpha = su[2].alpha
         /\ gamma = su[2].gamma
         /\ epsilon = su[2].epsilon
    /\ NoTables
    /\ NoFrame
    /\ pc = "idle"
    /\ ret = Returned("", "nothing", << >>)
    /\ trace = << >>

NextScenario ==
    \/ \E n \in 1..ScenarioSteps, reset \in BOOLEAN :
         /\ Fits(n, reset, ScenarioBudget, ScenarioSteps, ScenarioSteps * ScenarioBudget)
         /\ simulate(n, reset, ScenarioBudget)
    \/ RealStep
    \/ _plan
    \/ Transition

SpecScenario == InitScenario /\ [][NextScenario]_vars

(***************************************************************************)
(* C1: completion of simulate.                                             *)
(***************************************************************************)
\* a step that ends the running call
CallEnds == pc # "idle" /\ pc' = "idle"

\* the call ends by returning, after exactly num_trials real steps
CompletedExactly ==
    /\ ret'.kind = "None"
    /\ trial + 1 = num_trials
    /\ Len(history') = entry_len + num_trials
    /\ Len(trace') = entry_len + num_trials

\* what is left of the running call: trials, and the steps of the current one
Remaining ==
    LET perTrial == Budget(num_planning_updates) + 2
        done == CASE pc = "policy" -> 0
                  [] pc = "plan" -> 1 + plan_i
                  [] pc = "move" -> 1
                  [] OTHER -> 0
    IN  (num_trials - trial) * perTrial - done

\* a running call can always take its next step, and has trials left
CallProgresses ==
    pc # "idle" =>
        /\ ENABLED (RealStep \/ _plan \/ Transition)
        /\ trial < num_trials
        /\ Remaining > 0

\* C1 as claimed: every call to simulate, for every combination of its
\* parameters, ends by returning after exactly the requested number of real
\* steps; no call aborts.
C1_EveryCallCompletes == [][CallEnds => CompletedExactly]_vars

\* C1 amended: a call that resets, or that runs on an agent an earlier reset
\* has given its tables, always proceeds, every step of it brings it nearer
\* its end, and it ends by returning after exactly the requested number of
\* real steps, goal state or not.  Only a call without reset on an agent that
\* was never reset aborts, with AttributeError, before any real step.
C1_CallCompletesOnceReset ==
    /\ [](CallProgresses)
    /\ [][(pc # "idle" /\ pc' # "idle") => Remaining' < Remaining]_vars
    /\ [][CallEnds =>
            IF TableAttrs \subseteq attrs
            THEN CompletedExactly
            ELSE /\ ~reset_agent
                 /\ attrs = {}
                 /\ trial = 0
                 /\ ret' = Returned("simulate", "AttributeError", << >>)
                 /\ UNCHANGED <<history, trace>>]_vars

\* a call that passed through the goal state before its last trial has returned
C1_Witness ==
    /\ pc = "idle"
    /\ ret = Returned("simulate", "None", << >>)
    /\ Len(history) >= 2
    /\ \E i \in 1..(Len(history) - 1) : history[i][4] = env.goal_state

(***************************************************************************)
(* The real steps since the last reset, as trace records them.             *)
(***************************************************************************)
HasTables == TableAttrs \subseteq attrs

\* the trials of trace that took (st, ac)
Taken(st, ac) == {i \in 1..Len(trace) : trace[i].s = st /\ trace[i].a = ac}

\* the last of them, 0 if there is none
LastTaken(st, ac) ==
    IF Taken(st, ac) = {} THEN 0
    ELSE CHOOSE i \in Taken(st, ac) : \A j \in Taken(st, ac) : j <= i

Row(st, ac) == st * env.num_actions + ac

(***************************************************************************)
(* C2: the Recency Counter.                                                *)
(***************************************************************************)
\* C2: after any real steps since the last reset, with planning updates in
\* between, C[s,a] is the number of real steps since (s,a) was last taken,
\* and the number of real steps since the reset for a pair never taken.
C2_RecencyCounter ==
    HasTables =>
        \A st \in States, ac \in Actions :
            action_count[st][ac] = Len(trace) - LastTaken(st, ac)

\* after planning, one pair was taken two steps ago, one never in three steps
C2_Witness ==
    /\ HasTables
    /\ Len(trace) = 3
    /\ Draws(trace) > 0
    /\ \E st \in States, ac \in Actions :
         LastTaken(st, ac) = 1 /\ action_count[st][ac] = 2
    /\ \E st \in States, ac \in Actions :
         Taken(st, ac) = {} /\ action_count[st][ac] = 3

(***************************************************************************)
(* C3: what the Experience Model keeps of a reward.                        *)
(***************************************************************************)
\* C3 as claimed: for every pair taken, the entry planning reads back is the
\* (s, a, r, s1) of the pair's last real step, the reward unaltered.
C3_LastWriteWinsExactly ==
    HasTables =>
        \A i \in 1..Len(trace) :
            LastTaken(trace[i].s, trace[i].a) = i =>
                LET e == experience_buffer[Row(trace[i].s, trace[i].a)]
                IN  /\ e[1] = trace[i].s
                    /\ e[2] = trace[i].a
                    /\ FromInt(e[3]) = trace[i].r
                    /\ e[4] = trace[i].s1

(***************************************************************************)
(* C4: every pair has its entry.                                           *)
(***************************************************************************)
\* C4: once reset, every (state, action) pair has exactly one entry, at row
\* s * numActions + a, whose first two components are (s, a); the entry of a
\* pair not yet taken is the self-loop (s, a, 0, s); the row a planning
\* update draws is one of these rows and its entry is a transition between
\* states of the environment.
C4_ModelTotal ==
    HasTables =>
        /\ DOMAIN experience_buffer = Rows
        /\ Cardinality(Rows) = env.num_states * env.num_actions
        /\ \A st \in States, ac \in Actions :
             LET e == experience_buffer[Row(st, ac)]
             IN  /\ Row(st, ac) \in Rows
                 /\ e[1] = st
                 /\ e[2] = ac
                 /\ e[4] \in States
                 /\ Taken(st, ac) = {} => e = <<st, ac, 0, st>>
        /\ \A st \in States, ac \in Actions, st2 \in States, ac2 \in Actions :
             Row(st, ac) = Row(st2, ac2) => st = st2 /\ ac = ac2
        /\ (pc = "plan" /\ plan_i > 0) => mod \in Rows

\* a planning update has drawn the self-loop of a pair never taken, while
\* another pair's entry holds a real transition
C4_Witness ==
    /\ HasTables
    /\ pc = "plan"
    /\ plan_i > 0
    /\ Taken(experience_buffer[mod][1], experience_buffer[mod][2]) = {}
    /\ \E m \in Rows : experience_buffer[m][4] # experience_buffer[m][1]

(***************************************************************************)
(* C5: the History Log.                                                    *)
(***************************************************************************)
LogIsTrace ==
    /\ Len(history) = Len(trace)
    /\ \A i \in 1..Len(trace) :
         history[i] = <<trace[i].s, trace[i].a, trace[i].r, trace[i].s1>>

\* within a call, the log keeps every entry it has, in place
LogKept ==
    /\ Len(history') >= Len(history)
    /\ \A i \in 1..Len(history) : history'[i] = history[i]

\* C5: the log has one entry per real step since the last reset, the i-th
\* entry is the (state, action, reward, nextState) of the i-th real step, a
\* real step adds one entry at the end, and no real step or planning update
\* changes, reorders or removes an entry.
C5_HistoryAppendOnly ==
    /\ [](HasTables => LogIsTrace)
    /\ [][pc # "idle" => LogKept]_vars
    /\ [][pc = "policy" /\ HasTables => Len(history') = Len(history) + 1]_vars
    /\ [][pc = "plan" => history' = history]_vars

\* three real steps and a planning update are logged, a fractional reward too
C5_Witness ==
    /\ HasTables
    /\ Len(history) = 3
    /\ Draws(trace) > 0
    /\ \E i \in 1..3 : history[i][3] # FromInt(ToInt(history[i][3]))

(***************************************************************************)
(* C6: performance reporting.                                              *)
(***************************************************************************)
RECURSIVE RewardSum(_, _)
RewardSum(h, i) == IF i = 0 THEN 0 ELSE RewardSum(h, i - 1) + h[i][3]

C7_ResetClears ==
    (pc = "policy" /\ reset_agent /\ trial = 0) =>
        /\ HasTables
        /\ DOMAIN Q = States
        /\ \A st \in States :
             /\ DOMAIN Q[st] = Actions
             /\ \A ac \in Actions :
                  /\ Q[st][ac] = 0
                  /\ action_count[st][ac] = 0
                  /\ experience_buffer[Row(st, ac)] = <<st, ac, 0, st>>
        /\ history = << >>
        /\ s = env.start_state

\* a call with reset is at the head of its loop
C7_Witness ==
    /\ pc = "policy"
    /\ reset_agent
    /\ trial = 0
    /\ num_trials > 1
    /\ HasTables

(***************************************************************************)
(* One uninterrupted run from reset, driven by the random outcomes trace   *)
(* records: per trial the action drawn on a tie, the next state drawn, and *)
(* the rows planning drew.                                                 *)
(***************************************************************************)
AgentState(q, buf, cnt, h, pos) ==
    [Q |-> q, experience_buffer |-> buf, action_count |-> cnt, history |-> h, s |-> pos]

\* the agent as a reset leaves it
Untrained ==
    AgentState([st \in States |-> [ac \in Actions |-> 0]],
               [m \in Rows |-> <<m \div env.num_actions, m % env.num_actions, 0,
                                 m \div env.num_actions>>],
               [st \in States |-> [ac \in Actions |-> 0]],
               << >>,
               env.start_state)

\* the first i planning updates of a trial
RECURSIVE Planned(_, _, _, _, _)
Planned(q, buf, cnt, plan, i) ==
    IF i = 0 THEN q
    ELSE LET e == buf[plan[i]]
         IN  _update_qvals(Planned(q, buf, cnt, plan, i - 1), cnt,
                           e[1], e[2], FromInt(e[3]), e[4], TRUE)

\* lines 229-244 of a trial with outcomes o
Acted(ag, o) ==
    LET ac == _policy(ag.Q, ag.s, o.a)
        rw == env.R[ag.s][ac]
        buf == _update_experience_buffer(ag.experience_buffer, ag.s, ac, rw, o.s1)
        cnt == _update_action_count(ag.action_count, ag.s, ac)
    IN  AgentState(
            Planned(_update_qvals(ag.Q, ag.action_count, ag.s, ac, rw, o.s1, FALSE),
                    buf, cnt, o.plan, Len(o.plan)),
            buf, cnt,
            _update_history(ag.history, ag.s, ac, rw, o.s1),
            ag.s)

\* lines 246-249
NextPosition(nx) == IF nx = env.goal_state THEN env.start_state ELSE nx

Moved(ag, o) == [ag EXCEPT !.s = NextPosition(o.s1)]

\* the agent after the first n trials of one run
RECURSIVE RunOf(_, _)
RunOf(tr, n) ==
    IF n = 0 THEN Untrained ELSE Moved(Acted(RunOf(tr, n - 1), tr[n]), tr[n])

\* where one run with the outcomes of trace stands now
OneRun ==
    IF pc \in {"plan", "move"}
    THEN Acted(RunOf(trace, Len(trace) - 1), trace[Len(trace)])
    ELSE RunOf(trace, Len(trace))

Agent == AgentState(Q, experience_buffer, action_count, history, s)

(***************************************************************************)
(* C8: continuation without reset.                                         *)
(***************************************************************************)
\* every trial so far had the same number of planning updates (the trial
\* under way may still be planning)
SameBudget ==
    /\ \A i, j \in 1..Len(trace) :
         (pc \in {"idle", "policy", "move"} \/ (i < Len(trace) /\ j < Len(trace)))
             => Len(trace[i].plan) = Len(trace[j].plan)
    /\ pc # "idle" =>
         \A i \in 1..Len(trace) : Len(trace[i].plan) <= Budget(num_planning_updates)
    /\ (pc # "idle" /\ Len(trace) > 0 /\ (pc # "plan" \/ Len(trace) > 1)) =>
         Len(trace[1].plan) = Budget(num_planning_updates)

\* C8: with the same planning budget throughout, calls without reset that
\* follow a call with reset leave the agent (Value Table, Experience Model,
\* Recency Counter, History Log, position) as a single run from reset over
\* all their trials with the same random outcomes would; the continuing call
\* starts where the call before ended and adds its trials to the log.
C8_ContinuationIsOneRun ==
    (HasTables /\ SameBudget) =>
        /\ pc = "idle" => Agent = OneRun
        /\ (pc # "idle" /\ ~reset_agent /\ entry_len > 0) =>
             /\ Agent = OneRun
             /\ Len(history) = entry_len + trial + (IF pc = "policy" THEN 0 ELSE 1)
             /\ Len(trace) > entry_len =>
                  trace[entry_len + 1].s = NextPosition(trace[entry_len].s1)

\* the last trial of a call without reset has planned, the trials before it
\* were another call's, and the call did not start at the start state
C8_Witness ==
    /\ HasTables
    /\ SameBudget
    /\ ~reset_agent
    /\ entry_len > 0
    /\ pc = "plan"
    /\ plan_i = num_planning_updates
    /\ plan_i > 0
    /\ trial + 1 = num_trials
    /\ trace[entry_len + 1].s # env.start_state

(***************************************************************************)
(* C9: determinism.                                                        *)
(***************************************************************************)
\* C9: after every step of a run from reset, the History Log and the Value
\* Table are those that the configuration, the environment and the random
\* outcomes so far (tie-break choices, next states, planning rows)
\* determine, whatever ran before the reset: two runs that agree on these
\* agree on both.
C9_Deterministic ==
    HasTables =>
        LET run == OneRun
        IN  /\ history = run.history
            /\ Q = run.Q

\* two trials after a tie was broken at random towards action 1, with planning
C9_Witness ==
    /\ HasTables
    /\ Len(trace) >= 2
    /\ Draws(trace) >= 2
    /\ env.num_actions > 1
    /\ \E i \in 1..Len(trace) : trace[i].a # 0
    /\ \E st \in States, ac \in Actions : Q[st][ac] # 0

(***************************************************************************)
(* C10: the planning-budget scenario.                                      *)
(***************************************************************************)
\* the pairs taken in a real step
Experienced == {p \in States \X Actions : Taken(p[1], p[2]) # {}}

InScenario ==
    /\ HasTables
    /\ num_planning_updates = ScenarioBudget
    /\ Cardinality(Experienced) = 1

\* C10 as claimed: with the scenario's budget and only one pair ever
\* experienced, every planning update of a step draws that pair.
C10_DrawsTheExperiencedPair ==
    (InScenario /\ pc = "plan") =>
        \A i \in 1..Len(trace[Len(trace)].plan) :
            LET e == experience_buffer[trace[Len(trace)].plan[i]]
            IN  <<e[1], e[2]>> \in Experienced

\* the table a bonus-flagged update of entry e leaves, with the counter cnt
BonusFormula(q, cnt, e) ==
    LET st == e[1]
        ac == e[2]
        rw == FromInt(e[3])
        nx == e[4]
        first == q[st][ac] + Mul(alpha, rw + Mul(gamma, Max(q[nx])) - q[st][ac])
        q1 == [q EXCEPT ![st][ac] = first]
        second == first + Mul(alpha, rw + Mul(epsilon, Sqrt(cnt[st][ac]))
                                        + Mul(gamma, Max(q1[nx])) - first)
    IN  [q EXCEPT ![st][ac] = second]

\* C10 amended: with the scenario's budget and only one pair ever
\* experienced, each planning update of a step may draw any row of the
\* model, the experienced pair's or a never-experienced pair's, whose entry
\* is the zero-reward self-loop; whichever it draws, it applies the
\* bonus-update formula to that entry with the value C has for the drawn
\* pair at the time of the call, and a step makes exactly the budget's
\* number of such updates.
C10_DrawsAnyPair ==
    /\ []((InScenario /\ pc = "plan") =>
            /\ plan_i <= ScenarioBudget
            /\ Len(trace[Len(trace)].plan) = plan_i
            /\ plan_i < ScenarioBudget =>
                 \A m \in Rows : ENABLED (_plan /\ mod' = m))
    /\ [][(InScenario /\ pc = "plan" /\ plan_i' = plan_i + 1) =>
            LET e == experience_buffer[mod']
            IN  /\ mod' \in Rows
                /\ \/ <<e[1], e[2]>> \in Experienced
                   \/ e = <<e[1], e[2], 0, e[1]>>
                /\ Q' = BonusFormula(Q, action_count, e)
                /\ UNCHANGED <<action_count, experience_buffer>>]_vars
    /\ [][(InScenario /\ pc = "plan" /\ pc' # "plan") => plan_i = ScenarioBudget]_vars

\* the last update of a step's budget has run; the step drew the experienced
\* pair and a never-experienced pair, whose count is not 0
C10_Witness ==
    /\ InScenario
    /\ pc = "plan"
    /\ plan_i = ScenarioBudget
    /\ epsilon > 0
    /\ \E i, j \in 1..ScenarioBudget :
         LET ei == experience_buffer[trace[Len(trace)].plan[i]]
             ej == experience_buffer[trace[Len(trace)].plan[j]]
         IN  /\ <<ei[1], ei[2]>> \in Experienced
             /\ <<ej[1], ej[2]>> \notin Experienced
             /\ action_count[ej[1]][ej[2]] > 0

(***************************************************************************)
(* C11: the chain scenario, real steps without planning.                   *)
(***************************************************************************)
\* steps from reset in EnvChain, no planning update among them
InChain ==
    /\ env = EnvChain
    /\ HasTables
    /\ Draws(trace) = 0

\* Q[0,0] after k applications of the single-update formula from 0, the
\* value of the goal state's row being 0
RECURSIVE ChainValue(_)
ChainValue(k) ==
    IF k = 0 THEN 0
    ELSE LET before == ChainValue(k - 1)
         IN  before + Mul(alpha, FromInt(1) + Mul(gamma, 0) - before)

\* C11: in the two-state, one-action chain, after k real steps from reset
\* without planning the log has exactly k entries, each (0, 0, 1, 1) (three
\* after three steps); the agent is at state 0 before every step; Q[1,0]
\* stays 0; Q[0,0] is what k applications of
\* Q[0,0] <- Q[0,0] + alpha*(1 + gamma*max Q[1,:] - Q[0,0]) make of 0, which
\* is above 0, never falls, and rises with every step while below 1.
C11_ChainScenario ==
    InChain =>
        /\ Len(history) = Len(trace)
        /\ pc # "idle" =>
             Len(history) = entry_len + trial + (IF pc = "policy" THEN 0 ELSE 1)
        /\ \A i \in 1..Len(history) : history[i] = <<0, 0, FromInt(1), 1>>
        /\ pc \in {"policy", "idle"} => s = 0
        /\ Q[1][0] = 0
        /\ Q[0][0] = ChainValue(Len(history))
        /\ \A k \in 1..Len(history) :
             /\ ChainValue(k) > 0
             /\ ChainValue(k) >= ChainValue(k - 1)
             /\ ChainValue(k - 1) < FromInt(1) => ChainValue(k) > ChainValue(k - 1)

\* the third step of simulate(3) from reset, without planning, has learnt
C11_Witness ==
    /\ InChain
    /\ reset_agent
    /\ num_trials = 3
    /\ num_planning_updates = None
    /\ pc = "move"
    /\ Len(history) = 3
    /\ Q[0][0] > 0

(***************************************************************************)
(* C12: the reward collected prior to each move.                           *)
(***************************************************************************)
\* C12 as claimed: the value get_performace reports for the i-th move is the
\* sum of the rewards of the moves strictly before it; the first value is 0.
C12_RewardPriorToEachMove ==
    (ret.of = "get_performace" /\ ret.kind = "array") =>
        /\ Len(ret.value) = Len(history)
        /\ \A i \in 1..Len(history) : ret.value[i] = RewardSum(history, i - 1)

(***************************************************************************)
(* The methods called one at a time, on an agent whose Value Table and     *)
(* Recency Counter hold any of a few values: _update_qvals with any pair,  *)
(* reward, next state and flag, and _policy with any state.  ret keeps the *)
(* arguments of the call and the table it found.                           *)
(***************************************************************************)
CallSetups ==
    {<<EnvRing, Config(Half, Half, One)>>,
     <<EnvRing, Config(One, Half, 0)>>,
     <<EnvTri, Config(Half, Half, One)>>,
     <<EnvTri, Config(One, Half, One)>>,
     <<EnvTri, Config(Half, Half, 0)>>}

\* the values an entry of the Value Table has, and the rewards passed
CallValues == {-Half, 0, One}

InitCalls ==
    /\ \E su \in CallSetups :
         /\ env = su[1]
         /\ alpha = su[2].alpha
         /\ gamma = su[2].gamma
         /\ epsilon = su[2].epsilon
    /\ attrs = TableAttrs
    /\ Q \in [States -> [Actions -> CallValues]]
    /\ experience_buffer = _init_experience_buffer
    /\ action_count \in [States -> [Actions -> {0, CallCount}]]
    /\ history = _init_history
    /\ action_taken = _init_action_taken
    /\ s = env.start_state
    /\ NoFrame
    /\ pc = "idle"
    /\ ret = Returned("", "nothing", << >>)
    /\ trace = << >>

\* the call self._update_qvals(st, ac, rw, nx, bonus)
Call_update_qvals(st, ac, rw, nx, bonus) ==
    /\ pc = "idle"
    /\ ret.kind = "nothing"
    /\ Q' = _update_qvals(Q, action_count, st, ac, rw, nx, bonus)
    /\ ret' = Returned("_update_qvals", "None",
                       [s |-> st, a |-> ac, r |-> rw, s1 |-> nx, bonus |-> bonus,
                        Q |-> Q])
    /\ UNCHANGED <<env, alpha, gamma, epsilon, attrs, experience_buffer,
                   action_count, history, action_taken, s, pc, num_trials,
                   reset_agent, num_planning_updates, trial, plan_i, a, r, s1, mod,
                   entry_len, trace>>

\* the call self._policy(st)
Call_policy(st) ==
    /\ pc = "idle"
    /\ ret.kind = "nothing"
    /\ \E u \in Actions :
         ret' = Returned("_policy", "int", [s |-> st, a |-> _policy(Q, st, u)])
    /\ UNCHANGED <<env, alpha, gamma, epsilon, attrs, Q, experience_buffer,
                   action_count, history, action_taken, s, pc, num_trials,
                   reset_agent, num_planning_updates, trial, plan_i, a, r, s1, mod,
                   entry_len, trace>>

NextCalls ==
    \/ \E st \in States, ac \in Actions, rw \in CallValues, nx \in States,
          bonus \in BOOLEAN :
         Call_update_qvals(st, ac, rw, nx, bonus)
    \/ \E st \in States : Call_policy(st)

SpecCalls == InitCalls /\ [][NextCalls]_vars

(***************************************************************************)
(* C13: the value update rule.                                             *)
(***************************************************************************)
\* the value the baseline formula gives the entry (st, ac) of table q
BaselineValue(q, st, ac, rw, nx) ==
    q[st][ac] + Mul(alpha, rw + Mul(gamma, Max(q[nx])) - q[st][ac])

\* the value the bonus formula gives the entry (st, ac) of table q
BonusValue(q, c, st, ac, rw, nx) ==
    q[st][ac] + Mul(alpha, rw + Mul(epsilon, Sqrt(c)) + Mul(gamma, Max(q[nx]))
                           - q[st][ac])

\* table q with the entry (st, ac) replaced by v
WithEntry(q, st, ac, v) ==
    [x \in DOMAIN q |-> [y \in DOMAIN q[x] |->
        IF x = st /\ y = ac THEN v ELSE q[x][y]]]

\* C13: an update without the flag replaces Q[s,a] by
\* Q[s,a] + alpha*(r + gamma*max Q[s1] - Q[s,a]); an update with the flag
\* makes that replacement and then, on the table it produced (the new Q[s,a],
\* and the new maximum of the row when s1 = s), adds
\* alpha*(r + epsilon*sqrt(C[s,a]) + gamma*max Q[s1] - Q[s,a]) to Q[s,a];
\* either way no other entry of the table changes.
C13_UpdateRule ==
    ret.of = "_update_qvals" =>
        LET c == ret.value
            first == BaselineValue(c.Q, c.s, c.a, c.r, c.s1)
            q1 == WithEntry(c.Q, c.s, c.a, first)
            second == BonusValue(q1, action_count[c.s][c.a], c.s, c.a, c.r, c.s1)
        IN  /\ DOMAIN Q = States
            /\ \A st \in States : DOMAIN Q[st] = Actions
            /\ ~c.bonus => Q[c.s][c.a] = first
            /\ c.bonus => Q[c.s][c.a] = second
            /\ \A st \in States, ac \in Actions :
                 <<st, ac>> # <<c.s, c.a>> => Q[st][ac] = c.Q[st][ac]

\* a flagged update with s1 = s and a bonus: its first half changed the
\* maximum of the row, its second half changed Q[s,a] again
C13_Witness ==
    /\ ret.of = "_update_qvals"
    /\ ret.value.bonus
    /\ ret.value.s1 = ret.value.s
    /\ epsilon > 0
    /\ action_count[ret.value.s][ret.value.a] > 0
    /\ LET c == ret.value
           first == BaselineValue(c.Q, c.s, c.a, c.r, c.s1)
       IN  /\ first # c.Q[c.s][c.a]
           /\ Max(WithEntry(c.Q, c.s, c.a, first)[c.s]) # Max(c.Q[c.s])
           /\ Q[c.s][c.a] # first

(***************************************************************************)
(* C14: the policy.                                                        *)
(***************************************************************************)
\* all action values of the row are exactly equal
AllEqual(row) == \A i, j \in DOMAIN row : row[i] = row[j]

\* i is the smallest index whose value is the maximum of the row
FirstMaximal(row, i) ==
    /\ i \in DOMAIN row
    /\ \A j \in DOMAIN row : row[j] <= row[i]
    /\ \A j \in DOMAIN row : j < i => row[j] < row[i]

\* C14: for every state s, if all values of row Q[s] are equal the policy
\* may return any action index, and every action index is a possible result;
\* otherwise, some values tied or none, it returns the smallest index whose
\* value is the maximum of the row, and nothing else.
C14_Policy ==
    /\ (pc = "idle" /\ ret.kind = "nothing" /\ HasTables) =>
         \A st \in States :
            /\ ENABLED Call_policy(st)
            /\ AllEqual(Q[st]) =>
                 \A ac \in Actions : ENABLED (Call_policy(st) /\ ret'.value.a = ac)
    /\ ret.of = "_policy" =>
         /\ ret.value.a \in Actions
         /\ ~AllEqual(Q[ret.value.s]) => FirstMaximal(Q[ret.value.s], ret.value.a)

\* of three actions the last two tie for the maximum: the policy returned 1
C14_Witness ==
    /\ ret.of = "_policy"
    /\ env.num_actions = 3
    /\ LET row == Q[ret.value.s]
       IN  /\ row[0] < row[1]
           /\ row[1] = row[2]
           /\ ret.value.a = 1

(***************************************************************************)
(* C15: the position, and how the log's entries chain.                     *)
(***************************************************************************)
\* the state a step that observed nx leaves the agent in
After(nx) == IF nx = env.goal_state THEN env.start_state ELSE nx

\* C15: once a real step that observed s1 is over, the position is the start
\* state if s1 is the goal state and s1 otherwise (until then it is the
\* state the step acted from); so in the log, across calls without reset
\* too, the first entry's state is the start state and every later entry's
\* state is the start state if the entry before it has the goal state as
\* nextState, and that nextState otherwise.
C15_PositionChains ==
    HasTables =>
        /\ Len(history) = 0 => s = env.start_state
        /\ (Len(history) > 0 /\ pc \in {"policy", "idle"}) =>
             s = After(history[Len(history)][4])
        /\ (Len(history) > 0 /\ pc \in {"plan", "move"}) =>
             /\ s = history[Len(history)][1]
             /\ s1 = history[Len(history)][4]
        /\ Len(history) > 0 => history[1][1] = env.start_state
        /\ \A i \in 1..(Len(history) - 1) :
             history[i + 1][1] = After(history[i][4])

\* a call without reset started away from the start state, where the call
\* before it had ended, then reached the goal state and acted from the start
C15_Witness ==
    /\ HasTables
    /\ ~reset_agent
    /\ pc = "move"
    /\ entry_len = 1
    /\ Len(history) = 3
    /\ history[1][4] # env.goal_state
    /\ history[2][1] # env.start_state
    /\ history[2][4] = env.goal_state
    /\ env.goal_state # env.start_state

(***************************************************************************)
(* C16: what planning leaves alone.                                        *)
(***************************************************************************)
\* a step of the running call that is a planning update
PlanningUpdate == pc = "plan" /\ plan_i' = plan_i + 1

\* a step of the running call that is a real step
RealStepTaken == pc = "policy" /\ pc' \in {"plan", "move"}

\* C16: a planning update, and so a planning phase of any number of them,
\* changes nothing but the Value Table: the Recency Counter, the Experience
\* Model, the History Log and the position stay as they are, from the step
\* that enters the phase to the step that leaves it; within a call, only a
\* real step writes the counter, the model or the log.
C16_PlanningFrame ==
    /\ [][PlanningUpdate =>
            /\ UNCHANGED <<action_count, experience_buffer, history, s>>
            /\ pc' = "plan"]_vars
    /\ [][(pc = "plan" /\ ~PlanningUpdate) =>
            /\ plan_i = num_planning_updates
            /\ UNCHANGED <<action_count, experience_buffer, history>>]_vars
    /\ [][(pc # "idle" /\ <<action_count, experience_buffer, history>>' #
                          <<action_count, experience_buffer, history>>)
            => RealStepTaken]_vars

\* a planning phase of two updates is over, and it changed the Value Table
C16_Witness ==
    /\ HasTables
    /\ pc = "plan"
    /\ plan_i = 2
    /\ plan_i = num_planning_updates
    /\ Q # Acted(RunOf(trace, Len(trace) - 1),
                 [trace[Len(trace)] EXCEPT !.plan = << >>]).Q

(***************************************************************************)
(* C17: the order of a trial's parts.                                      *)
(***************************************************************************)
\* the agent as the trial under way found it
BeforeStep == RunOf(trace, Len(trace) - 1)

\* C17 as claimed: during the planning updates of a trial that took
\* (s, a, r, s1), the learning update has been made, the model's entry for
\* (s, a) is (s, a, r, s1), C[s,a] is 0 and its bonus term is zero, every
\* other counter is one more than before the trial, the log's last entry is
\* this trial's, and the position is still s.
C17_OrderingInStep ==
    (HasTables /\ pc = "plan") =>
        LET e == experience_buffer[Row(s, a)]
        IN  /\ plan_i = 0 =>
                 Q = _update_qvals(BeforeStep.Q, BeforeStep.action_count,
                                   s, a, r, s1, FALSE)
            /\ e[1] = s
            /\ e[2] = a
            /\ FromInt(e[3]) = r
            /\ e[4] = s1
            /\ action_count[s][a] = 0
            /\ Mul(epsilon, Sqrt(action_count[s][a])) = 0
            /\ \A st \in States, ac \in Actions :
                 <<st, ac>> # <<s, a>> =>
                     action_count[st][ac] = BeforeStep.action_count[st][ac] + 1
            /\ Len(history) = Len(BeforeStep.history) + 1
            /\ history[Len(history)] = <<s, a, r, s1>>
            /\ s = BeforeStep.s
            /\ s = trace[Len(trace)].s

(***************************************************************************)
(* C18: a flagged update whose bonus term vanishes.                        *)
(***************************************************************************)
\* the call that ended last was a flagged update with epsilon = 0 or C[s,a] = 0
BonusVanished ==
    /\ ret.of = "_update_qvals"
    /\ ret.value.bonus
    /\ epsilon = 0 \/ action_count[ret.value.s][ret.value.a] = 0

\* the table it found, after one update without the flag and after two
OnceUpdated ==
    LET c == ret.value
    IN  _update_qvals(c.Q, action_count, c.s, c.a, c.r, c.s1, FALSE)

TwiceUpdated ==
    LET c == ret.value
    IN  _update_qvals(OnceUpdated, action_count, c.s, c.a, c.r, c.s1, FALSE)

\* C18: with epsilon = 0 or C[s,a] = 0, an update with the flag leaves the
\* Value Table exactly as two consecutive updates without the flag, with the
\* same pair, reward and next state, leave it, whatever the table; it leaves
\* the table as a single such update does only if that update put Q[s,a] at
\* its target r + gamma*max Q[s1].
C18_VanishedBonusIsTwoBaselines ==
    BonusVanished =>
        LET c == ret.value
        IN  /\ Q = TwiceUpdated
            /\ Q = OnceUpdated <=>
                 OnceUpdated[c.s][c.a] = c.r + Mul(gamma, Max(OnceUpdated[c.s1]))

\* with epsilon = 0 and a count above 0, a flagged update left the table
\* unlike a single update without the flag
C18_Witness ==
    /\ BonusVanished
    /\ epsilon = 0
    /\ action_count[ret.value.s][ret.value.a] > 0
    /\ Q # OnceUpdated
    /\ Q # ret.value.Q

(***************************************************************************)
(* C19: the goal state is never acted from.                                *)
(***************************************************************************)
\* C19: when the start state is not the goal state, after a reset the
\* position is never the goal state, at the head of a trial or later; so no
\* log entry has the goal state as its state, the model's entries for the
\* goal state's pairs stay the zero-reward self-loops, and as long as no
\* planning update is made the goal state's row of the Value Table is zero.
C19_NeverActsFromGoal ==
    (HasTables /\ env.start_state # env.goal_state) =>
        /\ s # env.goal_state
        /\ \A i \in 1..Len(history) : history[i][1] # env.goal_state
        /\ \A ac \in Actions :
             experience_buffer[Row(env.goal_state, ac)] =
                 <<env.goal_state, ac, 0, env.goal_state>>
        /\ Draws(trace) = 0 => \A ac \in Actions : Q[env.goal_state][ac] = 0

\* the trial before reached the goal state; the next one starts, no planning
C19_Witness ==
    /\ HasTables
    /\ env.start_state # env.goal_state
    /\ pc = "policy"
    /\ num_planning_updates = None
    /\ Draws(trace) = 0
    /\ Len(history) >= 2
    /\ history[Len(history)][4] = env.goal_state
    /\ s = env.start_state
    /\ \E st \in States, ac \in Actions : Q[st][ac] # 0

====
